---------------------------- MODULE Spec2Model ----------------------------
(***************************************************************************)
(* Google OAuth token lifecycle of WitB: server/services/google-auth.ts    *)
(* (saveUserGoogleTokens, refreshUserGoogleTokens, getValidGoogleClient,   *)
(* revokeGoogleTokens), the google_tokens table of server/storage.ts       *)
(* (DatabaseStorage, the exported `storage`) and the OAuth routes of       *)
(* server/routes.ts.                                                       *)
(*                                                                         *)
(* One user's credential is modelled.  Every request is a process that     *)
(* runs one handler; a handler is split at its `await`s, so that other     *)
(* requests and the wall clock can move between two awaits.  The code      *)
(* between two awaits is synchronous and is one step.  Times are           *)
(* milliseconds since the epoch, as Date.now() returns them.               *)
(* createOAuth2Client is taken to be configured (client id and secret      *)
(* set), so it never throws.  The row's id, createdAt and updatedAt are    *)
(* not modelled.                                                           *)
(***************************************************************************)
EXTENDS Integers, Sequences, FiniteSets, TLC

\* ------------------------------------------------------------------ bounds
NProcs == 2
MaxCalls == 2
MaxTicks == 1
MaxScopeLen == 4
MaxUsers == 3

T0 == 10000000

\* ------------------------------------------------------- program constants
RefreshBufferMs == 300000
DefaultTtlMs == 3600000
MsPerSecond == 1000

\* ------------------------------------------------------------------ values
NULL == "null"
NoDate == -1

Procs == 1..NProcs

AccessTokNames == <<"A1", "A2", "A3", "A4", "A5", "A6", "A7", "A8">>
AccessTok(n) == AccessTokNames[n]

\* expires_in of a refresh response: undefined, a number, or a non-number
Missing == [t |-> "undefined", v |-> 0]
Num(n) == [t |-> "number", v |-> n]
Str(n) == [t |-> "string", v |-> n]

\* the answers of the provider's token endpoint to a refresh exchange
\* (tokenResponse.token, res.data.expires_in, res.data.refresh_token)
Response(tok, e, r) == [token |-> tok, expires_in |-> e, refresh_token |-> r]
ProviderResponses(tok) ==
    {Response("null", Num(3600), "null"),
     Response(tok, Missing, "null"),
     Response(tok, Num(0), "null"),
     Response(tok, Num(-1), "null"),
     Response(tok, Num(1), "null"),
     Response(tok, Num(300), "null"),
     Response(tok, Num(3600), "null"),
     Response(tok, Num(3600), "R3"),
     Response(tok, Str(60), "null")}

\* the wall clock moves by one of these between two steps
TickSteps == {MsPerSecond}

\* a row of google_tokens (shared/schema.ts); scopes is <<>> for null and
\* <<list>> for a list
Row(a, r, e, s) == [accessToken |-> a, refreshToken |-> r, expiryDate |-> e, scopes |-> s]
NoScopes == <<>>

VARIABLES googleTokens, clock, ticks, minted, calls, call,
          rooms, memberships, boxes, items, rcall,
          users, ucall

\* the credential of the user and the requests on it
tokenVars == <<googleTokens, clock, ticks, minted, calls, call>>
\* the rooms, memberships, boxes and items tables and the requests on them
roomVars == <<rooms, memberships, boxes, items, rcall>>
\* the users of the local user store and the registrations in flight
userVars == <<users, ucall>>

vars == <<tokenVars, roomVars, userVars>>

\* ----------------------------------------------------------------- storage
\* DatabaseStorage.getGoogleTokens: <<>> for undefined, <<row>> otherwise
GetGoogleTokens(table) == IF Len(table) = 0 THEN <<>> ELSE <<table[1]>>

\* mutant: an upsert, which inserts the refreshed tokens when the row is gone
RefreshGoogleTokensUpserts(table, newTokens) ==
    IF Len(table) = 0
    THEN <<Row(newTokens.accessToken, NULL, newTokens.expiryDate, NoScopes)>>
    ELSE [i \in 1..Len(table) |->
            [table[i] EXCEPT !.accessToken = newTokens.accessToken,
                             !.expiryDate = newTokens.expiryDate]]

\* mutant: the update leaves the stored access token
RefreshGoogleTokensKeepsAccessToken(table, newTokens) ==
    [i \in 1..Len(table) |->
        [table[i] EXCEPT !.expiryDate = newTokens.expiryDate]]

\* mutant: the update also sets the refresh token, which newTokens lacks
RefreshGoogleTokensClearsRefresh(table, newTokens) ==
    [i \in 1..Len(table) |->
        [table[i] EXCEPT !.accessToken = newTokens.accessToken,
                         !.refreshToken = NULL,
                         !.expiryDate = newTokens.expiryDate]]

\* mutant: the update stores no expiry
RefreshGoogleTokensDropsExpiry(table, newTokens) ==
    [i \in 1..Len(table) |->
        [table[i] EXCEPT !.accessToken = newTokens.accessToken,
                         !.expiryDate = NoDate]]

\* DatabaseStorage.refreshGoogleTokens: UPDATE ... SET accessToken, expiryDate
RefreshGoogleTokens(table, newTokens) ==
    [i \in 1..Len(table) |->
        [table[i] EXCEPT !.accessToken = newTokens.accessToken,
                         !.expiryDate = newTokens.expiryDate]]


\* mutant: an update that leaves out the fields the caller set to NULL, so a
\* stored refresh token survives a response without one
UpdateGoogleTokensKeepsRefresh(table, updates) ==
    [i \in 1..Len(table) |->
        [table[i] EXCEPT !.accessToken = updates.accessToken,
                         !.refreshToken = IF updates.refreshToken = NULL
                                          THEN table[i].refreshToken
                                          ELSE updates.refreshToken,
                         !.expiryDate = updates.expiryDate,
                         !.scopes = updates.scopes]]

\* DatabaseStorage.updateGoogleTokens: UPDATE ... SET updates WHERE userId
UpdateGoogleTokens(table, updates) ==
    [i \in 1..Len(table) |->
        [table[i] EXCEPT !.accessToken = updates.accessToken,
                         !.refreshToken = updates.refreshToken,
                         !.expiryDate = updates.expiryDate,
                         !.scopes = updates.scopes]]

\* a table without the UNIQUE constraint on user_id (MemStorage, which is not
\* the exported storage, keys its rows by a fresh id and checks nothing)
InsertNeverViolates(table) == FALSE

\* DatabaseStorage.saveGoogleTokens: INSERT; user_id is UNIQUE
\* (shared/schema.ts), so the insert throws when the user has a row
InsertViolatesUnique(table) == Len(table) > 0
\* mutant: the insert leaves expiry_date NULL
SaveGoogleTokensDropsExpiry(table, insertTokens) ==
    Append(table, [insertTokens EXCEPT !.expiryDate = NoDate])
SaveGoogleTokens(table, insertTokens) == Append(table, insertTokens)

\* a delete that removes nothing
DeleteGoogleTokensKeepsRow(table) == table

\* DatabaseStorage.deleteGoogleTokens: DELETE ... WHERE userId
DeleteGoogleTokens(table) == <<>>

\* ---------------------------------------------------------- error messages
ErrNotFound == "No Google tokens found for user"
ErrRefreshUnavailable == "Token expired and no refresh token available. User must re-authenticate."
ErrNoRefreshToken == "No refresh token available for user"
ErrReauthRequired == "Refresh token has been revoked. User must re-authenticate."
ErrRequestFailed == "Token refresh request failed"
ErrEmptyToken == "Google returned empty access token"
ErrPastExpiry == "Received token with past expiry date"
ErrStoreFailed == "Failed to store refreshed tokens"
ErrAfterRefresh == "Failed to retrieve valid tokens after refresh"
ErrExpiredAfterRefresh == "Received expired token from refresh"
ErrWrapped == "Failed to refresh expired Google tokens"
ErrAccessRequired == "Access token is required"
ErrUnique == "duplicate key value violates unique constraint"
ErrRevoke == "revokeToken failed"
ErrLookup == "getGoogleTokens failed"
NoError == "none"

\* ------------------------------------------------------- pure computations
\* mutant: a credential with no expiry is not refreshed
ShouldRefreshKnownOnly(row, now) ==
    row.expiryDate # NoDate /\ row.expiryDate <= now + RefreshBufferMs

\* mutant: the boundary now + 5 minutes is not stale
ShouldRefreshStrict(row, now) ==
    row.expiryDate = NoDate \/ row.expiryDate < now + RefreshBufferMs

\* mutant: the buffer is an hour instead of five minutes
ShouldRefreshWideBuffer(row, now) ==
    row.expiryDate = NoDate \/ row.expiryDate <= now + DefaultTtlMs

\* getValidGoogleClient: shouldRefresh, with expiryThreshold = now + 5 min
ShouldRefresh(row, now) ==
    row.expiryDate = NoDate \/ row.expiryDate <= now + RefreshBufferMs

\* mutant: only the row is looked for, not its refresh token
NoStoredTokens(storedTokens) == storedTokens = <<>>

\* refreshUserGoogleTokens: !storedTokens || !storedTokens.refreshToken
NoRefreshTokenAvailable(storedTokens) ==
    storedTokens = <<>> \/ storedTokens[1].refreshToken = NULL

\* mutant: the answer's token is used unchecked
EmptyTokenUnchecked(tokenResponse) == FALSE

\* the messages of the errors client.getAccessToken() throws, as sequences
\* of the parts the code searches them for
ProviderErrors ==
    {<<"invalid_grant">>,
     <<"400 Bad Request: ", "invalid_grant">>,
     <<"Token has been expired or revoked">>,
     <<"ETIMEDOUT">>,
     <<"503 Service Unavailable">>}
NoProviderError == <<>>

\* String.prototype.includes
Includes(msg, part) == \E i \in 1..Len(msg) : msg[i] = part

\* every provider error is reported as a failed request
ClassifyProviderErrorAllTransient(msg) == ErrRequestFailed

\* refreshUserGoogleTokens: the catch around client.getAccessToken()
ClassifyProviderError(msg) ==
    IF Includes(msg, "invalid_grant") \/ Includes(msg, "Token has been expired or revoked")
    THEN ErrReauthRequired
    ELSE ErrRequestFailed

\* the token data is not validated
MissingAccessTokenUnchecked(tokens) == FALSE

\* saveUserGoogleTokens: !tokens.access_token
MissingAccessToken(tokens) == tokens.access_token = NULL

\* the save always takes the insert branch
HasExistingNever(existingTokens) == FALSE

\* saveUserGoogleTokens: if (existingTokens)
HasExisting(existingTokens) == existingTokens # <<>>

\* the first revocation is always of the access token
FirstRevokeAccessToken(row) == [by |-> "access_token", token |-> row.accessToken]

\* revokeGoogleTokens: the token of the first client.revokeToken
FirstRevoke(row) ==
    IF row.refreshToken # NULL
    THEN [by |-> "refresh_token", token |-> row.refreshToken]
    ELSE [by |-> "access_token", token |-> row.accessToken]

\* revokeGoogleTokens: the token of the client.revokeToken of the inner catch
FallbackRevoke(row) == [by |-> "access_token", token |-> row.accessToken]

\* refreshUserGoogleTokens: !tokenResponse.token
EmptyToken(tokenResponse) == tokenResponse.token = NULL

\* mutant: the default lifetime is the refresh buffer
ComputeExpiryShortDefault(expiresInSeconds, now) ==
    IF /\ expiresInSeconds.t = "number"
       /\ expiresInSeconds.v # 0
       /\ expiresInSeconds.v > 0
    THEN now + expiresInSeconds.v * MsPerSecond
    ELSE now + RefreshBufferMs

\* mutant: the seconds are added as milliseconds
ComputeExpirySecondsAsMs(expiresInSeconds, now) ==
    IF /\ expiresInSeconds.t = "number"
       /\ expiresInSeconds.v # 0
       /\ expiresInSeconds.v > 0
    THEN now + expiresInSeconds.v
    ELSE now + DefaultTtlMs

\* mutant: any non-zero number is taken as the duration
ComputeExpiryAnyNumber(expiresInSeconds, now) ==
    IF /\ expiresInSeconds.t = "number"
       /\ expiresInSeconds.v # 0
    THEN now + expiresInSeconds.v * MsPerSecond
    ELSE now + DefaultTtlMs

\* refreshUserGoogleTokens: expiry of the refreshed token, now = Date.now()
ComputeExpiry(expiresInSeconds, now) ==
    IF /\ expiresInSeconds.t = "number"
       /\ expiresInSeconds.v # 0
       /\ expiresInSeconds.v > 0
    THEN now + expiresInSeconds.v * MsPerSecond
    ELSE now + DefaultTtlMs

\* refreshUserGoogleTokens: "Validate the new expiry isn't in the past"
ExpiryIsPast(expiryDate, now) == expiryDate <= now

\* String.prototype.split(' ') on a string given as a sequence of characters
RECURSIVE Split(_)
Split(str) ==
    IF str = <<>> THEN << <<>> >>
    ELSE LET rest == Split(Tail(str))
         IN IF Head(str) = " "
            THEN << <<>> >> \o rest
            ELSE << <<Head(str)>> \o rest[1] >> \o Tail(rest)

\* s.trim().length > 0: some character of s is not white space
WhiteSpace == {" ", "TAB"}

\* mutant: s.length > 0, without the trim
NonBlankUntrimmed(s) == Len(s) > 0

NonBlank(s) == \E i \in 1..Len(s) : s[i] \notin WhiteSpace

\* the characters of the scope strings, and a scope that is not a string
\* (tokens.scope given as an array)
Chars == {"a", "b", " ", "TAB"}
NotAString == <<"[object Array]">>

\* typeof scope === 'string'
IsString(scope) == \A i \in 1..Len(scope) : scope[i] \in Chars

\* saveUserGoogleTokens: scopes, from tokens.scope (<<>> when absent or '')
ParseScopes(scope) ==
    IF scope = <<>> \/ ~IsString(scope) THEN NoScopes
    ELSE LET scopeList == SelectSeq(Split(scope), NonBlank)
         IN IF Len(scopeList) > 0 THEN <<scopeList>> ELSE NoScopes

\* mutant: the client is given the access token only
CredentialsAccessTokenOnly(row) ==
    [access_token |-> row.accessToken,
     refresh_token |-> NULL,
     expiry_date |-> NoDate]

\* client.setCredentials of getValidGoogleClient
Credentials(row) ==
    [access_token |-> row.accessToken,
     refresh_token |-> row.refreshToken,
     expiry_date |-> row.expiryDate]

\* ------------------------------------------------------------ call frames
NoTokenResponse == [token |-> NULL, expires_in |-> Missing, refresh_token |-> NULL]
NoTokens == [access_token |-> NULL, refresh_token |-> NULL, expiry_date |-> NoDate, scope |-> <<>>]

\* what is remembered of the request that was served before: its handler,
\* its input, its error and the table it left
NoPrev == [op |-> "none", tokens |-> NoTokens, error |-> NoError, store |-> <<>>]

IdleFrame ==
    [op |-> "none", pc |-> "idle",
     storedTokens |-> <<>>, now |-> 0,
     rStoredTokens |-> <<>>, tokenResponse |-> NoTokenResponse,
     expiryDate |-> NoDate, computedAt |-> 0,
     updatedTokens |-> <<>>, client |-> <<>>,
     tokens |-> NoTokens, existingTokens |-> <<>>,
     error |-> NoError, cause |-> NoError, returned |-> <<>>,
     exchanges |-> 0, writes |-> 0, before |-> <<>>, wrote |-> <<>>,
     wroteAt |-> 0, revokeCalls |-> <<>>, status |-> 0,
     refreshRead |-> FALSE, answered |-> FALSE,
     providerError |-> NoProviderError, logged |-> NoError,
     atStart |-> <<>>, prev |-> NoPrev]

\* the inputs of saveUserGoogleTokens: the token response of getGoogleTokens
Tokens(a, r, e, sc) == [access_token |-> a, refresh_token |-> r, expiry_date |-> e, scope |-> sc]
TokenResponses ==
    {Tokens(NULL, "R2", T0 + DefaultTtlMs, <<>>),
     Tokens("S1", "R2", T0 + DefaultTtlMs, <<>>),
     Tokens("S1", "R2", T0 + DefaultTtlMs, <<"a", " ", " ", "b">>),
     Tokens("S1", NULL, T0 + DefaultTtlMs, <<>>),
     Tokens("S1", "R2", T0 + RefreshBufferMs, <<>>),
     Tokens("S1", "R2", T0 - RefreshBufferMs, <<>>),
     Tokens("S1", "R2", NoDate, <<>>),
     Tokens("S1", NULL, NoDate, <<>>)}

\* ------------------------------------------ rooms, memberships, boxes, items
\* the users with a session, and the ids gen_random_uuid() hands out
UserIds == {"u1", "u2"}
RoomIds == <<"r1", "r2">>
BoxIds == <<"b1", "b2", "b3">>
Roles == {"admin", "viewer"}

IdsOf(ids) == {ids[i] : i \in 1..Len(ids)}

\* the first id of ids that is not in used
FreshId(ids, used) == ids[CHOOSE i \in 1..Len(ids) :
                            /\ ids[i] \notin used
                            /\ \A j \in 1..(i - 1) : ids[j] \in used]

Membership(roomId, userId, role) == [roomId |-> roomId, userId |-> userId, role |-> role]
Box(id, roomId) == [id |-> id, roomId |-> roomId]
Item(boxId) == [boxId |-> boxId]

\* DatabaseStorage.getMembership: the first row of the select, <<>> for none
GetMembership(table, roomId, userId) ==
    LET found == {i \in 1..Len(table) :
                    table[i].roomId = roomId /\ table[i].userId = userId}
    IN IF found = {} THEN <<>>
       ELSE <<table[CHOOSE i \in found : \A j \in found : i <= j]>>

\* any membership passes (hasRoomAccess in the place of isRoomAdmin)
IsRoomAdminAnyRole(table, roomId, userId) ==
    GetMembership(table, roomId, userId) # <<>>

\* DatabaseStorage.isRoomAdmin: membership?.role === "admin"
IsRoomAdmin(table, roomId, userId) ==
    LET membership == GetMembership(table, roomId, userId)
    IN membership # <<>> /\ membership[1].role = "admin"

\* DatabaseStorage.getBox
GetBox(table, boxId) ==
    LET found == {i \in 1..Len(table) : table[i].id = boxId}
    IN IF found = {} THEN <<>> ELSE <<table[CHOOSE i \in found : TRUE]>>

\* DatabaseStorage.createRoom / createMembership / createBox / createItem
CreateMembership(table, insertMembership) == Append(table, insertMembership)
CreateBox(table, insertBox) == Append(table, insertBox)
CreateItem(table, insertItem) == Append(table, insertItem)

\* a request on rooms, boxes or items: the route's locals, what
\* isRoomAdmin answered, and whether a membership row with role admin
\* existed for the user and the room when it was asked (heldAdmin)
IdleRoomFrame ==
    [op |-> "none", pc |-> "idle", userId |-> NULL, roomId |-> NULL, boxId |-> NULL,
     bodyValid |-> FALSE, box |-> <<>>, checked |-> FALSE, isAdmin |-> FALSE,
     heldAdmin |-> FALSE, status |-> 0, created |-> <<>>]

\* no room yet: the tables of a new database
NoRooms ==
    /\ rooms = {}
    /\ memberships = <<>>
    /\ boxes = <<>>
    /\ items = <<>>
    /\ rcall = [p \in Procs |-> IdleRoomFrame]

\* --------------------------------------------------------- local user store
\* usernames are sequences of characters; passwords are given by their length
LowerOf(c) == IF c = "B" THEN "b" ELSE IF c = "O" THEN "o" ELSE c

\* String.prototype.toLowerCase
ToLowerCase(str) == [i \in 1..Len(str) |-> LowerOf(str[i])]

\* String.prototype.trim
RECURSIVE TrimStart(_)
TrimStart(str) ==
    IF str # <<>> /\ Head(str) \in {" ", "TAB"} THEN TrimStart(Tail(str)) ELSE str
RECURSIVE TrimEnd(_)
TrimEnd(str) ==
    IF str # <<>> /\ str[Len(str)] \in {" ", "TAB"}
    THEN TrimEnd(SubSeq(str, 1, Len(str) - 1)) ELSE str
Trim(str) == TrimEnd(TrimStart(str))

MinUsernameLength == 3
MinPasswordLength == 6

ErrUsernameExists == "Username already exists"
ErrUsernameShort == "Username must be at least 3 characters long"
ErrPasswordShort == "Password must be at least 6 characters long"

\* a createUser call: its arguments, its error and the user it returned
IdleUserFrame ==
    [pc |-> "idle", username |-> <<>>, passwordLength |-> 0, error |-> NoError,
     collided |-> FALSE, returned |-> <<>>]

\* server/db/users.json does not exist yet: init() writes { users: [] }
NoUsers ==
    /\ users = <<>>
    /\ ucall = [p \in Procs |-> IdleUserFrame]

InitExpiries ==
    {NoDate, T0 - 2 * RefreshBufferMs, T0 + RefreshBufferMs,
     T0 + RefreshBufferMs + 1}

InitRows == {Row("A1", r, e, NoScopes) : r \in {NULL, "R1"}, e \in InitExpiries}

Init ==
    /\ googleTokens \in {<<>>} \cup {<<row>> : row \in InitRows}
    /\ clock = T0
    /\ ticks = 0
    /\ minted = 1
    /\ calls = 0
    /\ call = [p \in Procs |-> IdleFrame]
    /\ NoRooms
    /\ NoUsers

\* mutant: the catch of getValidGoogleClient throws the error on as it is
ThrowUnwrapped(p, e) == [call[p] EXCEPT !.pc = "done", !.error = e]

\* a handler throws e to its caller: refreshUserGoogleTokens called from
\* getValidGoogleClient is wrapped by the catch of getValidGoogleClient
Throw(p, e) ==
    IF call[p].op = "getValid" /\ call[p].pc # "gv_read"
    THEN [call[p] EXCEPT !.pc = "done", !.error = ErrWrapped, !.cause = e]
    ELSE [call[p] EXCEPT !.pc = "done", !.error = e]

\* ------------------------------------------------------------------ clock
Tick ==
    /\ ticks < MaxTicks
    /\ \E d \in TickSteps : clock' = clock + d
    /\ ticks' = ticks + 1
    /\ UNCHANGED <<googleTokens, minted, calls, call>>
    /\ UNCHANGED <<roomVars, userVars>>

\* ------------------------------------------------------ request arrivals
\* the frame of a request that arrives in slot p; atStart is the table at
\* its arrival
Arrive(p) == [IdleFrame EXCEPT !.prev = call[p].prev, !.atStart = googleTokens]

\* requests in flight take the lowest free slots
Free(p) ==
    /\ call[p].pc = "idle"
    /\ \A q \in Procs : q < p => call[q].pc # "idle"
    /\ calls < MaxCalls

StartGetValid(p) ==
    /\ Free(p)
    /\ calls' = calls + 1
    /\ call' = [call EXCEPT ![p] = [Arrive(p) EXCEPT !.op = "getValid", !.pc = "gv_read"]]
    /\ UNCHANGED <<googleTokens, clock, ticks, minted>>
    /\ UNCHANGED <<roomVars, userVars>>

\* POST /api/auth/google/refresh
StartRefresh(p) ==
    /\ Free(p)
    /\ calls' = calls + 1
    /\ call' = [call EXCEPT ![p] = [Arrive(p) EXCEPT !.op = "refresh", !.pc = "rf_read"]]
    /\ UNCHANGED <<googleTokens, clock, ticks, minted>>
    /\ UNCHANGED <<roomVars, userVars>>

\* the response is handed back and the request is over
Return(p) ==
    /\ call[p].pc = "done"
    /\ call' = [call EXCEPT ![p] =
         [IdleFrame EXCEPT !.prev = [op |-> call[p].op, tokens |-> call[p].tokens,
                                     error |-> call[p].error, store |-> googleTokens]]]
    /\ UNCHANGED <<googleTokens, clock, ticks, minted, calls>>
    /\ UNCHANGED <<roomVars, userVars>>

\* --------------------------------------------------- getValidGoogleClient
GvRead(p) ==
    /\ call[p].pc = "gv_read"
    /\ LET storedTokens == GetGoogleTokens(googleTokens)
           now == clock
           f == [call[p] EXCEPT !.storedTokens = storedTokens, !.now = now]
       IN call' = [call EXCEPT ![p] =
            IF storedTokens = <<>>
            THEN [f EXCEPT !.pc = "done", !.error = ErrNotFound]
            ELSE IF ShouldRefresh(storedTokens[1], now)
                 THEN IF storedTokens[1].refreshToken = NULL
                      THEN [f EXCEPT !.pc = "done", !.error = ErrRefreshUnavailable]
                      ELSE [f EXCEPT !.pc = "rf_read"]
                 ELSE [f EXCEPT !.pc = "done",
                                !.client = <<Credentials(storedTokens[1])>>]]
    /\ UNCHANGED <<googleTokens, clock, ticks, minted, calls>>
    /\ UNCHANGED <<roomVars, userVars>>

GvReread(p) ==
    /\ call[p].pc = "gv_reread"
    /\ LET updatedTokens == GetGoogleTokens(googleTokens)
           f == [call[p] EXCEPT !.updatedTokens = updatedTokens]
       IN call' = [call EXCEPT ![p] =
            IF updatedTokens = <<>> \/ updatedTokens[1].accessToken = NULL
            THEN [f EXCEPT !.pc = "done", !.error = ErrWrapped, !.cause = ErrAfterRefresh]
            ELSE IF /\ updatedTokens[1].expiryDate # NoDate
                    /\ updatedTokens[1].expiryDate <= call[p].now
                 THEN [f EXCEPT !.pc = "done", !.error = ErrWrapped,
                                !.cause = ErrExpiredAfterRefresh]
                 ELSE [f EXCEPT !.pc = "done",
                                !.client = <<Credentials(updatedTokens[1])>>]]
    /\ UNCHANGED <<googleTokens, clock, ticks, minted, calls>>
    /\ UNCHANGED <<roomVars, userVars>>

\* ------------------------------------------------ refreshUserGoogleTokens
RfRead(p) ==
    /\ call[p].pc = "rf_read"
    /\ LET storedTokens == GetGoogleTokens(googleTokens)
       IN call' = [call EXCEPT ![p] =
            IF NoRefreshTokenAvailable(storedTokens)
            THEN [Throw(p, ErrNoRefreshToken) EXCEPT
                     !.rStoredTokens = storedTokens, !.refreshRead = TRUE]
            ELSE [call[p] EXCEPT !.pc = "rf_exchange", !.rStoredTokens = storedTokens,
                                 !.refreshRead = TRUE]]
    /\ UNCHANGED <<googleTokens, clock, ticks, minted, calls>>
    /\ UNCHANGED <<roomVars, userVars>>

\* client.getAccessToken() throws an error with message msg
RfExchangeFails(p) ==
    /\ call[p].pc = "rf_exchange"
    /\ \E msg \in ProviderErrors :
         call' = [call EXCEPT ![p] =
                    [Throw(p, ClassifyProviderError(msg)) EXCEPT
                        !.exchanges = call[p].exchanges + 1,
                        !.providerError = msg]]
    /\ UNCHANGED <<googleTokens, clock, ticks, minted, calls>>
    /\ UNCHANGED <<roomVars, userVars>>

\* client.getAccessToken() answers; lines 199-218 run on the answer
RfExchange(p) ==
    /\ call[p].pc = "rf_exchange"
    /\ minted < Len(AccessTokNames)
    /\ \E tokenResponse \in ProviderResponses(AccessTok(minted + 1)) :
         LET expiryDate == ComputeExpiry(tokenResponse.expires_in, clock)
             f == [call[p] EXCEPT !.tokenResponse = tokenResponse,
                                  !.answered = TRUE,
                                  !.exchanges = call[p].exchanges + 1]
         IN /\ minted' = IF tokenResponse.token # NULL THEN minted + 1 ELSE minted
            /\ call' = [call EXCEPT ![p] =
                 IF EmptyToken(tokenResponse)
                 THEN [Throw(p, ErrEmptyToken) EXCEPT
                          !.tokenResponse = tokenResponse,
                          !.answered = TRUE,
                          !.exchanges = call[p].exchanges + 1]
                 ELSE IF ExpiryIsPast(expiryDate, clock)
                      THEN [Throw(p, ErrPastExpiry) EXCEPT
                               !.tokenResponse = tokenResponse,
                               !.answered = TRUE,
                               !.exchanges = call[p].exchanges + 1,
                               !.expiryDate = expiryDate, !.computedAt = clock]
                      ELSE [f EXCEPT !.pc = "rf_store", !.expiryDate = expiryDate,
                                     !.computedAt = clock]]
    /\ UNCHANGED <<googleTokens, clock, ticks, calls>>
    /\ UNCHANGED <<roomVars, userVars>>

RfStore(p) ==
    /\ call[p].pc = "rf_store"
    /\ LET newTokens == [accessToken |-> call[p].tokenResponse.token,
                         expiryDate |-> call[p].expiryDate]
           table == RefreshGoogleTokens(googleTokens, newTokens)
           updatedTokens == GetGoogleTokens(table)
       IN /\ googleTokens' = table
          /\ call' = [call EXCEPT ![p] =
               IF updatedTokens = <<>>
               THEN Throw(p, ErrStoreFailed)
               ELSE [call[p] EXCEPT
                       !.pc = IF call[p].op = "getValid" THEN "gv_reread" ELSE "done",
                       !.writes = call[p].writes + 1,
                       !.before = GetGoogleTokens(googleTokens),
                       !.wrote = updatedTokens,
                       !.wroteAt = clock,
                       !.returned = <<[access_token |-> newTokens.accessToken,
                                       expiry_date |-> newTokens.expiryDate]>>]]
    /\ UNCHANGED <<clock, ticks, minted, calls>>
    /\ UNCHANGED <<roomVars, userVars>>

\* --------------------------------------------------- saveUserGoogleTokens
\* POST /api/auth/google/callback, after getGoogleTokens(code)
StartSave(p) ==
    /\ Free(p)
    /\ calls' = calls + 1
    /\ \E tokens \in TokenResponses :
         call' = [call EXCEPT ![p] =
                    [Arrive(p) EXCEPT !.op = "save", !.pc = "sv_read", !.tokens = tokens]]
    /\ UNCHANGED <<googleTokens, clock, ticks, minted>>
    /\ UNCHANGED <<roomVars, userVars>>

SvRead(p) ==
    /\ call[p].pc = "sv_read"
    /\ call' = [call EXCEPT ![p] =
         IF MissingAccessToken(call[p].tokens)
         THEN Throw(p, ErrAccessRequired)
         ELSE [call[p] EXCEPT !.pc = "sv_write",
                              !.existingTokens = GetGoogleTokens(googleTokens)]]
    /\ UNCHANGED <<googleTokens, clock, ticks, minted, calls>>
    /\ UNCHANGED <<roomVars, userVars>>

SvWrite(p) ==
    /\ call[p].pc = "sv_write"
    /\ LET tokens == call[p].tokens
           data == Row(tokens.access_token, tokens.refresh_token,
                       tokens.expiry_date, ParseScopes(tokens.scope))
       IN IF HasExisting(call[p].existingTokens)
          THEN /\ googleTokens' = UpdateGoogleTokens(googleTokens, data)
               /\ call' = [call EXCEPT ![p] =
                    [call[p] EXCEPT !.pc = "done",
                                    !.writes = IF googleTokens = <<>> THEN 0 ELSE 1,
                                    !.before = GetGoogleTokens(googleTokens),
                                    !.wrote = GetGoogleTokens(googleTokens'),
                                    !.wroteAt = clock]]
          ELSE IF InsertViolatesUnique(googleTokens)
               THEN /\ call' = [call EXCEPT ![p] = Throw(p, ErrUnique)]
                    /\ UNCHANGED googleTokens
               ELSE /\ googleTokens' = SaveGoogleTokens(googleTokens, data)
                    /\ call' = [call EXCEPT ![p] =
                         [call[p] EXCEPT !.pc = "done", !.writes = 1,
                                         !.wrote = <<data>>, !.wroteAt = clock]]
    /\ UNCHANGED <<clock, ticks, minted, calls>>
    /\ UNCHANGED <<roomVars, userVars>>

\* --------------------- DELETE /api/auth/google/disconnect, revokeGoogleTokens
StartDisconnect(p) ==
    /\ Free(p)
    /\ calls' = calls + 1
    /\ call' = [call EXCEPT ![p] = [Arrive(p) EXCEPT !.op = "disconnect", !.pc = "rv_read"]]
    /\ UNCHANGED <<googleTokens, clock, ticks, minted>>
    /\ UNCHANGED <<roomVars, userVars>>

\* the outer catch throws e on: the route answers 500 without deleting
RevokeCatchRethrows(f, e) == [f EXCEPT !.pc = "done", !.error = e, !.status = 500]

\* revokeGoogleTokens: the outer catch logs e and revokeGoogleTokens returns;
\* the route goes on to storage.deleteGoogleTokens
RevokeCatch(f, e) == [f EXCEPT !.pc = "dc_delete", !.logged = e]

\* storage.getGoogleTokens answers (found) or rejects
RvRead(p) ==
    /\ call[p].pc = "rv_read"
    /\ \E found \in BOOLEAN :
         LET storedTokens == GetGoogleTokens(googleTokens)
         IN call' = [call EXCEPT ![p] =
              IF ~found
              THEN RevokeCatch(call[p], ErrLookup)
              ELSE [call[p] EXCEPT
                      !.storedTokens = storedTokens,
                      !.pc = IF storedTokens = <<>> THEN "dc_delete" ELSE "rv_revoke"]]
    /\ UNCHANGED <<googleTokens, clock, ticks, minted, calls>>
    /\ UNCHANGED <<roomVars, userVars>>

\* the first client.revokeToken: the refresh token if stored, else the
\* access token; ok is the provider's answer
RvRevoke(p) ==
    /\ call[p].pc = "rv_revoke"
    /\ \E ok \in BOOLEAN :
         LET revoke == FirstRevoke(call[p].storedTokens[1])
         IN call' = [call EXCEPT ![p] =
              [call[p] EXCEPT
                 !.revokeCalls = Append(call[p].revokeCalls,
                                        [by |-> revoke.by, token |-> revoke.token, ok |-> ok]),
                 !.pc = IF ok THEN "dc_delete" ELSE "rv_fallback"]]
    /\ UNCHANGED <<googleTokens, clock, ticks, minted, calls>>
    /\ UNCHANGED <<roomVars, userVars>>

\* catch (revokeError): client.revokeToken(accessToken); its failure is
\* caught by the outer catch and logged
RvFallback(p) ==
    /\ call[p].pc = "rv_fallback"
    /\ \E ok \in BOOLEAN :
         LET revoke == FallbackRevoke(call[p].storedTokens[1])
             f == [call[p] EXCEPT
                     !.revokeCalls = Append(call[p].revokeCalls,
                                            [by |-> revoke.by, token |-> revoke.token, ok |-> ok])]
         IN call' = [call EXCEPT ![p] =
              IF ok THEN [f EXCEPT !.pc = "dc_delete"]
              ELSE RevokeCatch(f, ErrRevoke)]
    /\ UNCHANGED <<googleTokens, clock, ticks, minted, calls>>
    /\ UNCHANGED <<roomVars, userVars>>

\* storage.deleteGoogleTokens and the response
DcDelete(p) ==
    /\ call[p].pc = "dc_delete"
    /\ googleTokens' = DeleteGoogleTokens(googleTokens)
    /\ call' = [call EXCEPT ![p] =
         [call[p] EXCEPT !.pc = "done",
                         !.before = GetGoogleTokens(googleTokens),
                         !.writes = IF Len(googleTokens) > 0 THEN 1 ELSE 0,
                         !.status = IF Len(googleTokens) > 0 THEN 200 ELSE 404]]
    /\ UNCHANGED <<clock, ticks, minted, calls>>
    /\ UNCHANGED <<roomVars, userVars>>

Start(p) == StartGetValid(p) \/ StartRefresh(p) \/ StartSave(p) \/ StartDisconnect(p)

Step(p) ==
    \/ GvRead(p) \/ GvReread(p)
    \/ RfRead(p) \/ RfExchangeFails(p) \/ RfExchange(p) \/ RfStore(p)
    \/ SvRead(p) \/ SvWrite(p)
    \/ RvRead(p) \/ RvRevoke(p) \/ RvFallback(p) \/ DcDelete(p)

Next == Tick \/ \E p \in Procs : Start(p) \/ Step(p) \/ Return(p)

Spec == Init /\ [][Next]_vars

\* one request at a time: a request arrives only when no other is in flight
Quiet == \A q \in Procs : call[q].pc = "idle"

SeqGetValid(p) == Quiet /\ StartGetValid(p)
SeqRefresh(p) == Quiet /\ StartRefresh(p)
SeqSave(p) == Quiet /\ StartSave(p)
SeqDisconnect(p) == Quiet /\ StartDisconnect(p)

NextSeq ==
    \/ Tick
    \/ \E p \in Procs :
         \/ SeqGetValid(p) \/ SeqRefresh(p) \/ SeqSave(p) \/ SeqDisconnect(p)
         \/ Step(p) \/ Return(p)

SpecSeq == Init /\ [][NextSeq]_vars


\* requests of one user interleaved at their awaits, each slot serving one
\* request, over one input of every kind: the callback of a complete token
\* response, a provider that answers the exchange with a one-hour token or
\* rejects it with invalid_grant, a revocation that succeeds at once
RaceRows == {Row("A1", "R1", T0 - 2 * RefreshBufferMs, NoScopes)}
RaceTokens ==
    {Tokens("S1", "R2", T0 + DefaultTtlMs, <<>>),
     Tokens("S1", "R2", T0 - RefreshBufferMs, <<>>),
     Tokens("S1", "R2", NoDate, <<>>)}

RaceInit ==
    /\ Init
    /\ googleTokens \in {<<>>} \cup {<<row>> : row \in RaceRows}

RaceSave(p) == StartSave(p) /\ call'[p].tokens \in RaceTokens
RaceExchangeFails(p) == RfExchangeFails(p) /\ call'[p].providerError = <<"invalid_grant">>
RaceExchange(p) ==
    /\ RfExchange(p)
    /\ call'[p].tokenResponse.expires_in = Num(3600)
    /\ call'[p].tokenResponse.refresh_token = NULL
RaceRvRead(p) == RvRead(p) /\ call'[p].logged = NoError
RaceRvRevoke(p) == RvRevoke(p) /\ call'[p].pc = "dc_delete"

NextRace ==
    \E p \in Procs :
        \/ StartGetValid(p) \/ StartRefresh(p) \/ RaceSave(p) \/ StartDisconnect(p)
        \/ GvRead(p) \/ GvReread(p)
        \/ RfRead(p) \/ RaceExchangeFails(p) \/ RaceExchange(p) \/ RfStore(p)
        \/ SvRead(p) \/ SvWrite(p)
        \/ RaceRvRead(p) \/ RaceRvRevoke(p) \/ DcDelete(p)

SpecRace == RaceInit /\ [][NextRace]_vars


\* ------------------------------------ POST /api/rooms, .../boxes, .../items
\* requests of users with a session (requireAuth passed), each slot serving
\* one request
RoomFree(p) ==
    /\ rcall[p].pc = "idle"
    /\ \A q \in Procs : q < p => rcall[q].pc # "idle"
    /\ calls < MaxCalls

\* POST /api/rooms
StartCreateRoom(p) ==
    /\ RoomFree(p)
    /\ calls' = calls + 1
    /\ \E userId \in UserIds :
         rcall' = [rcall EXCEPT ![p] =
            [IdleRoomFrame EXCEPT !.op = "createRoom", !.pc = "rm_create", !.userId = userId]]
    /\ UNCHANGED <<googleTokens, clock, ticks, minted, call>>
    /\ UNCHANGED <<rooms, memberships, boxes, items, userVars>>

\* storage.createRoom
RmCreate(p) ==
    /\ rcall[p].pc = "rm_create"
    /\ IdsOf(RoomIds) \ rooms # {}
    /\ LET id == FreshId(RoomIds, rooms)
       IN /\ rooms' = rooms \cup {id}
          /\ rcall' = [rcall EXCEPT ![p] =
               [rcall[p] EXCEPT !.pc = "rm_member", !.roomId = id, !.created = <<id>>]]
    /\ UNCHANGED <<tokenVars, memberships, boxes, items, userVars>>

\* storage.createMembership: the creator becomes admin of the room
RmMember(p) ==
    /\ rcall[p].pc = "rm_member"
    /\ memberships' = CreateMembership(memberships,
                         Membership(rcall[p].roomId, rcall[p].userId, "admin"))
    /\ rcall' = [rcall EXCEPT ![p] = [rcall[p] EXCEPT !.pc = "done", !.status = 201]]
    /\ UNCHANGED <<tokenVars, rooms, boxes, items, userVars>>

\* POST /api/rooms/:roomId/boxes (and POST / of api/boxes.ts)
StartCreateBox(p) ==
    /\ RoomFree(p)
    /\ calls' = calls + 1
    /\ \E userId \in UserIds, roomId \in IdsOf(RoomIds), bodyValid \in BOOLEAN :
         rcall' = [rcall EXCEPT ![p] =
            [IdleRoomFrame EXCEPT !.op = "createBox", !.pc = "bx_check",
                                  !.userId = userId, !.roomId = roomId,
                                  !.bodyValid = bodyValid]]
    /\ UNCHANGED <<googleTokens, clock, ticks, minted, call>>
    /\ UNCHANGED <<rooms, memberships, boxes, items, userVars>>

\* what follows `await storage.isRoomAdmin(roomId, userId)` in both routes:
\* 403 for a non-admin, else the schema's parse, which throws (500) on a bad
\* body
AfterCheck(f, roomId, next) ==
    LET isAdmin == IsRoomAdmin(memberships, roomId, f.userId)
        g == [f EXCEPT !.checked = TRUE, !.isAdmin = isAdmin,
                       !.heldAdmin = \E i \in 1..Len(memberships) :
                            memberships[i] = Membership(roomId, f.userId, "admin")]
    IN IF ~isAdmin THEN [g EXCEPT !.pc = "done", !.status = 403]
       ELSE IF ~f.bodyValid THEN [g EXCEPT !.pc = "done", !.status = 500]
       ELSE [g EXCEPT !.pc = next]

BxCheck(p) ==
    /\ rcall[p].pc = "bx_check"
    /\ rcall' = [rcall EXCEPT ![p] = AfterCheck(rcall[p], rcall[p].roomId, "bx_create")]
    /\ UNCHANGED <<tokenVars, rooms, memberships, boxes, items, userVars>>

\* storage.createBox and res.status(201)
BxCreate(p) ==
    /\ rcall[p].pc = "bx_create"
    /\ IdsOf(BoxIds) \ {boxes[i].id : i \in 1..Len(boxes)} # {}
    /\ LET id == FreshId(BoxIds, {boxes[i].id : i \in 1..Len(boxes)})
       IN /\ boxes' = CreateBox(boxes, Box(id, rcall[p].roomId))
          /\ rcall' = [rcall EXCEPT ![p] =
               [rcall[p] EXCEPT !.pc = "done", !.status = 201, !.created = <<id>>]]
    /\ UNCHANGED <<tokenVars, rooms, memberships, items, userVars>>

\* POST /api/boxes/:boxId/items
StartCreateItem(p) ==
    /\ RoomFree(p)
    /\ calls' = calls + 1
    /\ \E userId \in UserIds, boxId \in IdsOf(BoxIds), bodyValid \in BOOLEAN :
         rcall' = [rcall EXCEPT ![p] =
            [IdleRoomFrame EXCEPT !.op = "createItem", !.pc = "it_getbox",
                                  !.userId = userId, !.boxId = boxId,
                                  !.bodyValid = bodyValid]]
    /\ UNCHANGED <<googleTokens, clock, ticks, minted, call>>
    /\ UNCHANGED <<rooms, memberships, boxes, items, userVars>>

\* storage.getBox: 404 when there is no such box
ItGetBox(p) ==
    /\ rcall[p].pc = "it_getbox"
    /\ LET box == GetBox(boxes, rcall[p].boxId)
       IN rcall' = [rcall EXCEPT ![p] =
            IF box = <<>>
            THEN [rcall[p] EXCEPT !.pc = "done", !.status = 404]
            ELSE [rcall[p] EXCEPT !.pc = "it_check", !.box = box,
                                  !.roomId = box[1].roomId]]
    /\ UNCHANGED <<tokenVars, rooms, memberships, boxes, items, userVars>>

ItCheck(p) ==
    /\ rcall[p].pc = "it_check"
    /\ rcall' = [rcall EXCEPT ![p] =
         AfterCheck(rcall[p], rcall[p].box[1].roomId, "it_create")]
    /\ UNCHANGED <<tokenVars, rooms, memberships, boxes, items, userVars>>

\* storage.createItem and res.json(item)
ItCreate(p) ==
    /\ rcall[p].pc = "it_create"
    /\ items' = CreateItem(items, Item(rcall[p].boxId))
    /\ rcall' = [rcall EXCEPT ![p] =
         [rcall[p] EXCEPT !.pc = "done", !.status = 200, !.created = <<rcall[p].boxId>>]]
    /\ UNCHANGED <<tokenVars, rooms, memberships, boxes, userVars>>

\* a database with room r1 and box b1 in it; each user is admin or viewer
\* of r1, or no member
InitMemberships ==
    {<<>>,
     <<Membership("r1", "u1", "admin")>>,
     <<Membership("r1", "u1", "viewer")>>,
     <<Membership("r1", "u1", "admin"), Membership("r1", "u2", "viewer")>>,
     <<Membership("r1", "u1", "viewer"), Membership("r1", "u2", "admin")>>}

InitRooms ==
    /\ googleTokens = <<>>
    /\ clock = T0
    /\ ticks = 0
    /\ minted = 1
    /\ calls = 0
    /\ call = [p \in Procs |-> IdleFrame]
    /\ rooms = {"r1"}
    /\ memberships \in InitMemberships
    /\ boxes = <<Box("b1", "r1")>>
    /\ items = <<>>
    /\ rcall = [p \in Procs |-> IdleRoomFrame]
    /\ NoUsers

NextRooms ==
    \E p \in Procs :
        \/ StartCreateRoom(p) \/ RmCreate(p) \/ RmMember(p)
        \/ StartCreateBox(p) \/ BxCheck(p) \/ BxCreate(p)
        \/ StartCreateItem(p) \/ ItGetBox(p) \/ ItCheck(p) \/ ItCreate(p)

SpecRooms == InitRooms /\ [][NextRooms]_vars


\* ------------------------------------------- the scope field of the callback
\* one callback save, over every scope string of at most MaxScopeLen
\* characters and a scope that is not a string, for a user with or without
\* a row
ScopeInputs ==
    UNION {[1..n -> Chars] : n \in 0..MaxScopeLen} \cup {NotAString}

ScopeSave(p) ==
    /\ calls = 0
    /\ Free(p)
    /\ calls' = calls + 1
    /\ \E scope \in ScopeInputs :
         call' = [call EXCEPT ![p] =
            [Arrive(p) EXCEPT !.op = "save", !.pc = "sv_read",
                              !.tokens = Tokens("S1", "R2", T0 + DefaultTtlMs, scope)]]
    /\ UNCHANGED <<googleTokens, clock, ticks, minted>>
    /\ UNCHANGED <<roomVars, userVars>>

NextScopes == \E p \in Procs : ScopeSave(p) \/ SvRead(p) \/ SvWrite(p)

SpecScopes == RaceInit /\ [][NextScopes]_vars

\* ------------------------------------------------------ the local user store
\* LocalUserService.createUser, called by POST /api/auth/register with the
\* username and the password of the body as they are; calls interleave at
\* the await of db.read() and at the await of hashPassword
Usernames ==
    {<<"b", "o", "b">>, <<"B", "o", "b">>, <<"b", "o", "b", " ">>, <<"b", "o">>}
PasswordLengths == {MinPasswordLength - 1, MinPasswordLength}

LocalUser(id, username) == [id |-> id, username |-> username]

\* users.find(user => user.username.toLowerCase() === username.toLowerCase())
ExistingUser(table, username) ==
    \E i \in 1..Len(table) :
        ToLowerCase(table[i].username) = ToLowerCase(username)

InFlight == Cardinality({p \in Procs : ucall[p].pc \in {"cu_check", "cu_hash"}})

StartCreateUser(p) ==
    /\ ucall[p].pc = "idle"
    /\ Len(users) + InFlight < MaxUsers
    /\ \E username \in Usernames, passwordLength \in PasswordLengths :
         ucall' = [ucall EXCEPT ![p] =
                     [IdleUserFrame EXCEPT !.pc = "cu_check",
                                           !.username = username,
                                           !.passwordLength = passwordLength]]
    /\ UNCHANGED users
    /\ UNCHANGED <<tokenVars, roomVars>>

\* db.read() has answered: the lookup and the two length checks, up to the
\* await of hashPassword
CuCheck(p) ==
    /\ ucall[p].pc = "cu_check"
    /\ LET f == [ucall[p] EXCEPT !.collided = ExistingUser(users, ucall[p].username)]
       IN ucall' = [ucall EXCEPT ![p] =
            IF ExistingUser(users, f.username)
            THEN [f EXCEPT !.pc = "done", !.error = ErrUsernameExists]
            ELSE IF Len(f.username) < MinUsernameLength
            THEN [f EXCEPT !.pc = "done", !.error = ErrUsernameShort]
            ELSE IF f.passwordLength < MinPasswordLength
            THEN [f EXCEPT !.pc = "done", !.error = ErrPasswordShort]
            ELSE [f EXCEPT !.pc = "cu_hash"]]
    /\ UNCHANGED users
    /\ UNCHANGED <<tokenVars, roomVars>>

\* hashPassword has answered: the user is built with username.trim(), pushed
\* and written
CuPush(p) ==
    /\ ucall[p].pc = "cu_hash"
    /\ LET user == LocalUser(Len(users) + 1, Trim(ucall[p].username))
       IN /\ users' = Append(users, user)
          /\ ucall' = [ucall EXCEPT ![p] =
               [ucall[p] EXCEPT !.pc = "done",
                                !.collided = ExistingUser(users, user.username),
                                !.returned = <<user>>]]
    /\ UNCHANGED <<tokenVars, roomVars>>

\* the route has answered and the slot serves the next registration
CuReturn(p) ==
    /\ ucall[p].pc = "done"
    /\ ucall' = [ucall EXCEPT ![p] = IdleUserFrame]
    /\ UNCHANGED users
    /\ UNCHANGED <<tokenVars, roomVars>>

NextUsers ==
    \E p \in Procs :
        StartCreateUser(p) \/ CuCheck(p) \/ CuPush(p) \/ CuReturn(p)

SpecUsers == RaceInit /\ [][NextUsers]_vars

\* ------------------------------------------------------------- properties
\* what a request read first, when it found a row
ReadRow(p) == call[p].storedTokens[1]

\* the request's first read found a row whose expiry is later than the
\* request's now + 5 minutes
ReadValid(p) ==
    /\ call[p].storedTokens # <<>>
    /\ ReadRow(p).expiryDate # NoDate
    /\ ReadRow(p).expiryDate > call[p].now + 5 * 60 * 1000

\* the request's first read found a row with no expiry, or with an expiry at
\* or before the request's now + 5 minutes
ReadStale(p) ==
    /\ call[p].storedTokens # <<>>
    /\ \/ ReadRow(p).expiryDate = NoDate
       \/ ReadRow(p).expiryDate <= call[p].now + 5 * 60 * 1000

\* C1: a getValidGoogleClient call that read a credential expiring later than
\* now + 5 minutes is over at once: it returns a client carrying the stored
\* access token (and refresh token and expiry), has made no refresh exchange
\* and has written nothing to the store.
C1_ValidUsesStored ==
    \A p \in Procs :
        (call[p].op = "getValid" /\ ReadValid(p)) =>
            /\ call[p].pc = "done"
            /\ call[p].error = NoError
            /\ call[p].client # <<>>
            /\ call[p].client[1].access_token = ReadRow(p).accessToken
            /\ call[p].client[1].refresh_token = ReadRow(p).refreshToken
            /\ call[p].client[1].expiry_date = ReadRow(p).expiryDate
            /\ call[p].exchanges = 0
            /\ call[p].writes = 0
            /\ ~call[p].refreshRead
            /\ googleTokens = call[p].storedTokens

C1_Witness ==
    \E p \in Procs :
        /\ call[p].op = "getValid" /\ ReadValid(p) /\ call[p].pc = "done"
        /\ call[p].client # <<>>
        /\ call[p].now > T0


\* C2: a getValidGoogleClient call that read a credential with a refresh
\* token and with no expiry, or an expiry at or before now + 5 minutes, has
\* made exactly one refresh exchange when it returns or fails: none before
\* the exchange, one from the exchange on, never a second one.
C2_StaleRefreshesOnce ==
    \A p \in Procs :
        (call[p].op = "getValid" /\ ReadStale(p) /\ ReadRow(p).refreshToken # NULL) =>
            /\ call[p].pc \in {"rf_read", "rf_exchange"} => call[p].exchanges = 0
            /\ call[p].pc \in {"rf_store", "gv_reread", "done"} => call[p].exchanges = 1

C2_Witness ==
    \E p \in Procs :
        /\ call[p].op = "getValid" /\ call[p].pc = "done"
        /\ call[p].storedTokens # <<>>
        /\ ReadRow(p).refreshToken # NULL
        /\ ReadRow(p).expiryDate = call[p].now + 5 * 60 * 1000
        /\ call[p].exchanges = 1
        /\ call[p].client # <<>>

\* C3: a getValidGoogleClient call that read a credential with no refresh
\* token and with no expiry, or an expiry at or before now + 5 minutes, fails
\* with 'Token expired and no refresh token available' (RefreshUnavailable),
\* has made no exchange, and the store is as it was read.
C3_StaleWithoutRefreshToken ==
    \A p \in Procs :
        (call[p].op = "getValid" /\ ReadStale(p) /\ ReadRow(p).refreshToken = NULL) =>
            /\ call[p].pc = "done"
            /\ call[p].error = ErrRefreshUnavailable
            /\ call[p].cause = NoError
            /\ call[p].client = <<>>
            /\ call[p].exchanges = 0
            /\ call[p].writes = 0
            /\ ~call[p].refreshRead
            /\ googleTokens = call[p].storedTokens

C3_Witness ==
    \E p \in Procs :
        /\ call[p].op = "getValid" /\ call[p].pc = "done"
        /\ call[p].storedTokens # <<>>
        /\ ReadRow(p).refreshToken = NULL
        /\ ReadRow(p).expiryDate = call[p].now + 5 * 60 * 1000
        /\ call[p].error = ErrRefreshUnavailable

\* C4: with no row for the user getValidGoogleClient fails with 'No Google
\* tokens found for user' (NotFound); refreshUserGoogleTokens fails with 'No
\* refresh token available for user' when it reads no row or a row without
\* refresh token; in these cases no exchange is made and the store is as it
\* was read.
C4_NothingToRefresh ==
    \A p \in Procs :
        /\ (call[p].op = "getValid" /\ call[p].pc # "gv_read" /\ call[p].storedTokens = <<>>) =>
              /\ call[p].pc = "done"
              /\ call[p].error = ErrNotFound
              /\ call[p].client = <<>>
              /\ call[p].exchanges = 0
              /\ call[p].writes = 0
              /\ googleTokens = <<>>
        /\ (/\ call[p].refreshRead
            /\ \/ call[p].rStoredTokens = <<>>
               \/ call[p].rStoredTokens[1].refreshToken = NULL) =>
              /\ call[p].pc = "done"
              /\ call[p].op = "refresh" => call[p].error = ErrNoRefreshToken
              /\ call[p].op = "getValid" =>
                    call[p].error = ErrWrapped /\ call[p].cause = ErrNoRefreshToken
              /\ call[p].returned = <<>>
              /\ call[p].exchanges = 0
              /\ call[p].writes = 0
              /\ googleTokens = call[p].rStoredTokens

C4_Witness ==
    \E p \in Procs :
        /\ call[p].op = "refresh" /\ call[p].pc = "done"
        /\ call[p].refreshRead
        /\ call[p].rStoredTokens # <<>>
        /\ call[p].rStoredTokens[1].refreshToken = NULL
        /\ call[p].error = ErrNoRefreshToken

\* C5: a refresh whose answer carries no access token fails with 'Google
\* returned empty access token' (RefreshFailed; wrapped when the refresh was
\* called by getValidGoogleClient), writes nothing, and the store keeps the
\* access token and expiry the refresh read.
C5_EmptyTokenFails ==
    \A p \in Procs :
        (call[p].answered /\ call[p].tokenResponse.token = NULL) =>
            /\ call[p].pc = "done"
            /\ call[p].op = "refresh" => call[p].error = ErrEmptyToken
            /\ call[p].op = "getValid" =>
                  call[p].error = ErrWrapped /\ call[p].cause = ErrEmptyToken
            /\ call[p].writes = 0
            /\ call[p].returned = <<>>
            /\ googleTokens = call[p].rStoredTokens

C5_Witness ==
    \E p \in Procs :
        /\ call[p].answered /\ call[p].tokenResponse.token = NULL
        /\ call[p].op = "refresh" /\ call[p].pc = "done"
        /\ call[p].error = ErrEmptyToken
        /\ googleTokens # <<>>

\* a refresh (called directly or by getValidGoogleClient) has written
RefreshWrote(p) == call[p].op \in {"refresh", "getValid"} /\ call[p].wrote # <<>>

\* C6: the row a refresh writes has the refresh token the row had just
\* before the write, whenever the answer carried no new refresh token; and a
\* row that had a refresh token has one after the write, whatever the answer.
C6_RefreshTokenRetained ==
    \A p \in Procs :
        RefreshWrote(p) =>
            /\ call[p].tokenResponse.refresh_token = NULL =>
                  call[p].wrote[1].refreshToken = call[p].before[1].refreshToken
            /\ call[p].before[1].refreshToken # NULL =>
                  call[p].wrote[1].refreshToken # NULL

C6_Witness ==
    \E p \in Procs :
        /\ RefreshWrote(p)
        /\ call[p].tokenResponse.refresh_token = NULL
        /\ call[p].before[1].refreshToken = "R1"
        /\ call[p].wrote[1].refreshToken = "R1"
        /\ call[p].wrote[1].accessToken # call[p].before[1].accessToken

\* C7: the row a refresh writes has the answer's refresh token, when the
\* answer carried one.
C7_NewRefreshTokenStored ==
    \A p \in Procs :
        (RefreshWrote(p) /\ call[p].tokenResponse.refresh_token # NULL) =>
            call[p].wrote[1].refreshToken = call[p].tokenResponse.refresh_token

C9_ExpiryAfterWrite ==
    \A p \in Procs :
        RefreshWrote(p) => call[p].wrote[1].expiryDate > call[p].wroteAt

\* C9 (amended): the expiry a refresh writes is a date later than the time
\* at which the refresh computed and validated it.
C9_ExpiryAfterCompute ==
    \A p \in Procs :
        RefreshWrote(p) =>
            /\ call[p].wrote[1].expiryDate # NoDate
            /\ call[p].wrote[1].expiryDate > call[p].computedAt
            /\ call[p].computedAt <= call[p].wroteAt

C9_Witness ==
    \E p \in Procs :
        /\ RefreshWrote(p)
        /\ call[p].wroteAt > call[p].computedAt
        /\ call[p].wrote[1].expiryDate > call[p].computedAt
        /\ call[p].wrote[1].expiryDate <= call[p].wroteAt

\* the answer reported a number of seconds that is zero or negative
NonPositiveDuration(p) ==
    /\ call[p].answered
    /\ call[p].tokenResponse.token # NULL
    /\ call[p].tokenResponse.expires_in.t = "number"
    /\ call[p].tokenResponse.expires_in.v <= 0

RefreshError(p) == IF call[p].op = "getValid" THEN call[p].cause ELSE call[p].error

GrantRevoked(msg) ==
    \/ Includes(msg, "invalid_grant")
    \/ Includes(msg, "Token has been expired or revoked")

\* C11: when the provider rejects the refresh exchange with invalid_grant (or
\* "Token has been expired or revoked") refresh fails with the
\* re-authentication error; for every other provider error it fails with the
\* request-failed error, which is a different one; in both cases nothing is
\* written and the stored row is the one refresh read.
C11_ProviderErrorClassified ==
    \A p \in Procs :
        call[p].providerError # NoProviderError =>
            /\ call[p].pc = "done"
            /\ GrantRevoked(call[p].providerError) => RefreshError(p) = ErrReauthRequired
            /\ ~GrantRevoked(call[p].providerError) => RefreshError(p) = ErrRequestFailed
            /\ ErrReauthRequired # ErrRequestFailed
            /\ call[p].writes = 0
            /\ googleTokens = call[p].rStoredTokens
            /\ googleTokens = call[p].atStart

C11_Witness ==
    \E p \in Procs :
        /\ call[p].op = "refresh"
        /\ Includes(call[p].providerError, "invalid_grant")
        /\ call[p].error = ErrReauthRequired
        /\ googleTokens # <<>>
        /\ googleTokens = call[p].atStart

\* C12: a save whose token data has no access token fails with "Access token
\* is required" before it looks at the store: no insert and no update happens
\* and the table is what it was when the call arrived, with or without a row.
C12_MissingAccessTokenRejected ==
    \A p \in Procs :
        (call[p].op = "save" /\ call[p].tokens.access_token = NULL
                             /\ call[p].pc # "sv_read") =>
            /\ call[p].pc = "done"
            /\ call[p].error = ErrAccessRequired
            /\ call[p].writes = 0
            /\ call[p].wrote = <<>>
            /\ googleTokens = call[p].atStart

C12_Witness ==
    \E p \in Procs :
        /\ call[p].op = "save" /\ call[p].pc = "done"
        /\ call[p].tokens.access_token = NULL
        /\ call[p].tokens.refresh_token # NULL
        /\ call[p].error = ErrAccessRequired
        /\ call[p].atStart # <<>>
        /\ googleTokens = call[p].atStart

\* C13: the table never holds more than one row of the user, whatever requests
\* (callback save, refresh, getValidGoogleClient, disconnect) interleave at
\* their awaits; two saves that both found no row before either wrote end with
\* one row, the second insert being refused by the UNIQUE constraint.
C13_AtMostOneRecord == Len(googleTokens) <= 1

C13_Witness ==
    \E p, q \in Procs :
        /\ p # q
        /\ call[p].op = "save" /\ call[q].op = "save"
        /\ call[p].pc = "done" /\ call[q].pc = "done"
        /\ call[p].atStart = <<>> /\ call[q].atStart = <<>>
        /\ call[p].existingTokens = <<>> /\ call[q].existingTokens = <<>>
        /\ call[p].error = NoError /\ call[p].writes = 1
        /\ call[q].error = ErrUnique /\ call[q].writes = 0
        /\ Len(googleTokens) = 1

\* C14: a save that directly follows a successful save of the same token
\* response succeeds too and leaves the table exactly as the first left it
\* (access token, refresh token, expiry and scopes), with one row.
C14_SaveIdempotent ==
    \A p \in Procs :
        (/\ call[p].op = "save" /\ call[p].pc = "done"
         /\ call[p].prev.op = "save" /\ call[p].prev.error = NoError
         /\ call[p].prev.tokens = call[p].tokens) =>
            /\ call[p].error = NoError
            /\ googleTokens = call[p].prev.store
            /\ call[p].atStart = call[p].prev.store
            /\ Len(googleTokens) = 1

C14_Witness ==
    \E p \in Procs :
        /\ call[p].op = "save" /\ call[p].pc = "done"
        /\ call[p].prev.op = "save" /\ call[p].prev.error = NoError
        /\ call[p].prev.tokens = call[p].tokens
        /\ call[p].tokens.scope # <<>>
        /\ call[p].writes = 1
        /\ Len(googleTokens) = 1
        /\ googleTokens[1].scopes = << << <<"a">>, <<"b">> >> >>
        /\ googleTokens = call[p].prev.store

\* the remote revocations request p has made, in order
RevokeCalls(p) == call[p].revokeCalls

\* C15: revokeGoogleTokens revokes the stored refresh token first when there
\* is one; a revocation of the access token happens only when no refresh token
\* is stored or the call before it failed; when the first call succeeds no
\* other call is made, so with a stored refresh token and an answering
\* provider the access token is never revoked.
C15_RevokeOrder ==
    \A p \in Procs :
        RevokeCalls(p) # <<>> =>
            LET row == call[p].storedTokens[1]
                n == Len(RevokeCalls(p))
            IN /\ call[p].storedTokens # <<>>
               /\ n <= 2
               /\ row.refreshToken # NULL =>
                     /\ RevokeCalls(p)[1].by = "refresh_token"
                     /\ RevokeCalls(p)[1].token = row.refreshToken
               /\ \A i \in 1..n :
                     RevokeCalls(p)[i].by = "access_token" =>
                        /\ RevokeCalls(p)[i].token = row.accessToken
                        /\ \/ row.refreshToken = NULL
                           \/ (i > 1 /\ ~RevokeCalls(p)[i - 1].ok)
               /\ \A i \in 2..n : ~RevokeCalls(p)[i - 1].ok
               /\ (row.refreshToken # NULL /\ RevokeCalls(p)[1].ok) =>
                     \A i \in 1..n : RevokeCalls(p)[i].by # "access_token"

C15_Witness ==
    \E p \in Procs :
        /\ call[p].op = "disconnect" /\ call[p].pc = "done"
        /\ call[p].storedTokens # <<>>
        /\ call[p].storedTokens[1].refreshToken = "R1"
        /\ RevokeCalls(p) = <<[by |-> "refresh_token", token |-> "R1", ok |-> FALSE],
                              [by |-> "access_token", token |-> "A1", ok |-> TRUE]>>

RevokePcs == {"rv_read", "rv_revoke", "rv_fallback"}

\* C16: revokeGoogleTokens never throws: whatever the store lookup and the
\* remote revocations do (every call failing included), the failure is only
\* logged, the disconnect route goes on to its delete step, and the request
\* never ends with an error or a 500 answer.
C16_RevokeNeverThrows ==
    \A p \in Procs :
        call[p].op = "disconnect" =>
            /\ call[p].error = NoError
            /\ call[p].cause = NoError
            /\ call[p].pc \in RevokePcs \cup {"dc_delete", "done"}
            /\ call[p].logged # NoError => call[p].pc \in {"dc_delete", "done"}
            /\ call[p].pc = "done" => call[p].status \in {200, 404}
            /\ call[p].pc # "done" => call[p].status = 0

C16_Witness ==
    \E p \in Procs :
        /\ call[p].op = "disconnect" /\ call[p].pc = "dc_delete"
        /\ call[p].logged = ErrRevoke
        /\ Len(call[p].revokeCalls) = 2
        /\ \A i \in 1..2 : ~call[p].revokeCalls[i].ok
        /\ call[p].error = NoError

\* C17: a disconnect of a user who has a row ends with the table empty (and a
\* 200 answer), whether the revocation succeeded, failed or could not reach
\* the provider; while revokeGoogleTokens runs, and until the delete step of
\* the route, the row is untouched.
C17_DisconnectDeletes ==
    \A p \in Procs :
        call[p].op = "disconnect" =>
            /\ call[p].pc \in RevokePcs \cup {"dc_delete"} =>
                  /\ googleTokens = call[p].atStart
                  /\ call[p].writes = 0
            /\ call[p].pc = "done" =>
                  /\ googleTokens = <<>>
                  /\ call[p].atStart # <<>> =>
                        /\ call[p].status = 200
                        /\ call[p].writes = 1
                        /\ call[p].before = call[p].atStart

C17_Witness ==
    \E p \in Procs :
        /\ call[p].op = "disconnect" /\ call[p].pc = "done"
        /\ call[p].atStart # <<>>
        /\ call[p].logged = ErrRevoke
        /\ call[p].status = 200
        /\ googleTokens = <<>>

\* the lifetime, in ms, refresh gave the token of request p: the reported
\* seconds when they are a positive number, one hour otherwise
GrantedMs(p) ==
    LET e == call[p].tokenResponse.expires_in
    IN IF e.t = "number" /\ e.v > 0 THEN e.v * 1000 ELSE 60 * 60 * 1000

\* C18 (as claimed): right after a successful refresh the stored expiry is
\* later than now + 5 minutes, whatever duration the provider reported.
C18_RefreshMakesValid ==
    \A p \in Procs :
        RefreshWrote(p) =>
            /\ call[p].wrote[1].expiryDate # NoDate
            /\ call[p].wrote[1].expiryDate > call[p].wroteAt + 5 * 60 * 1000

\* C18 (amended): right after a successful refresh the stored expiry is later
\* than now + 5 minutes exactly when the lifetime given to the token (the
\* reported positive number of seconds, else one hour) exceeds 5 minutes plus
\* the time that passed between the computation of the expiry and the write;
\* a reported lifetime of 300 seconds or less leaves the credential stale.
C18_RefreshValidIffLongLived ==
    \A p \in Procs :
        RefreshWrote(p) =>
            LET elapsed == call[p].wroteAt - call[p].computedAt
                expiry == call[p].wrote[1].expiryDate
            IN /\ expiry # NoDate
               /\ elapsed >= 0
               /\ (expiry > call[p].wroteAt + 5 * 60 * 1000)
                     <=> (GrantedMs(p) > 5 * 60 * 1000 + elapsed)
               /\ GrantedMs(p) <= 5 * 60 * 1000 =>
                     expiry <= call[p].wroteAt + 5 * 60 * 1000

C18_Witness ==
    \E p \in Procs :
        /\ RefreshWrote(p)
        /\ call[p].op = "refresh" /\ call[p].pc = "done" /\ call[p].error = NoError
        /\ call[p].tokenResponse.expires_in = Num(300)
        /\ googleTokens = call[p].wrote
        /\ googleTokens[1].expiryDate = call[p].wroteAt + 5 * 60 * 1000

\* a save that found no row when it arrived has succeeded
SavedFromNone(p) ==
    /\ call[p].op = "save" /\ call[p].pc = "done" /\ call[p].error = NoError
    /\ call[p].atStart = <<>>

\* C19 (as claimed): after a successful save for a user without a row, a row
\* exists whose expiry is known and later than now + 5 minutes, for every
\* token response that has an access token.
C19_SaveMakesValid ==
    \A p \in Procs :
        SavedFromNone(p) =>
            /\ Len(googleTokens) = 1
            /\ googleTokens[1].expiryDate # NoDate
            /\ googleTokens[1].expiryDate > call[p].wroteAt + 5 * 60 * 1000

\* C19 (amended): after a successful save for a user without a row, one row
\* exists with the response's access token, refresh token (or none) and
\* expiry_date (or none); its expiry is known and later than now + 5 minutes
\* exactly when the response carried an expiry_date later than now + 5
\* minutes, and otherwise the row is stale from the start.
C19_SaveStoresResponse ==
    \A p \in Procs :
        SavedFromNone(p) =>
            /\ Len(googleTokens) = 1
            /\ googleTokens = call[p].wrote
            /\ googleTokens[1].accessToken = call[p].tokens.access_token
            /\ googleTokens[1].accessToken # NULL
            /\ googleTokens[1].refreshToken = call[p].tokens.refresh_token
            /\ googleTokens[1].expiryDate = call[p].tokens.expiry_date
            /\ (/\ googleTokens[1].expiryDate # NoDate
                /\ googleTokens[1].expiryDate > call[p].wroteAt + 5 * 60 * 1000)
                  <=> (/\ call[p].tokens.expiry_date # NoDate
                       /\ call[p].tokens.expiry_date > call[p].wroteAt + 5 * 60 * 1000)

C19_Witness ==
    \E p \in Procs :
        /\ SavedFromNone(p)
        /\ call[p].tokens.expiry_date = NoDate
        /\ call[p].tokens.refresh_token = "R2"
        /\ Len(googleTokens) = 1
        /\ googleTokens[1].accessToken = "S1"
        /\ googleTokens[1].expiryDate = NoDate

\* request p is a getValidGoogleClient call that read a stale row with a
\* refresh token and whose exchange was answered with a token and a positive
\* number of seconds
StaleRefreshAnswered(p) ==
    /\ call[p].op = "getValid"
    /\ ReadStale(p)
    /\ ReadRow(p).refreshToken # NULL
    /\ call[p].answered
    /\ call[p].tokenResponse.token # NULL
    /\ call[p].tokenResponse.expires_in.t = "number"
    /\ call[p].tokenResponse.expires_in.v > 0

\* C20: with one request in flight, a getValidGoogleClient call on a stale
\* row with refresh token R1, answered by the provider with access token A2
\* and d > 0 seconds, ends without error; the row then has access token A2,
\* refresh token R1 and expiry now + d (now being the time the answer was
\* handled), and the client returned carries these three stored values.
C20_RefreshEndToEnd ==
    \A p \in Procs :
        (StaleRefreshAnswered(p) /\ call[p].pc = "done") =>
            /\ call[p].error = NoError
            /\ call[p].exchanges = 1
            /\ Len(googleTokens) = 1
            /\ googleTokens[1].accessToken = call[p].tokenResponse.token
            /\ googleTokens[1].refreshToken = ReadRow(p).refreshToken
            /\ googleTokens[1].expiryDate =
                  call[p].computedAt + call[p].tokenResponse.expires_in.v * 1000
            /\ call[p].client # <<>>
            /\ call[p].client[1].access_token = googleTokens[1].accessToken
            /\ call[p].client[1].refresh_token = googleTokens[1].refreshToken
            /\ call[p].client[1].expiry_date = googleTokens[1].expiryDate

C20_Witness ==
    \E p \in Procs :
        /\ StaleRefreshAnswered(p) /\ call[p].pc = "done"
        /\ ReadRow(p).expiryDate = T0 - 2 * 5 * 60 * 1000
        /\ call[p].tokenResponse.expires_in = Num(3600)
        /\ call[p].client = <<[access_token |-> "A2", refresh_token |-> "R1",
                               expiry_date |-> call[p].computedAt + 3600 * 1000]>>
        /\ googleTokens[1].accessToken = "A2"
        /\ googleTokens[1].refreshToken = "R1"

\* the box and item requests that created something
Creators(op) == {p \in Procs : rcall[p].op = op /\ rcall[p].created # <<>>}

\* C21: a box or an item is created, and the request answered with success,
\* only when a membership row with role admin existed for the requesting
\* user in the target room at the moment the route asked isRoomAdmin; a
\* viewer or a non-member is answered 403, and the boxes and items tables
\* hold exactly what the admitted requests created.
C21_OnlyAdminsCreate ==
    /\ \A p \in Procs :
          rcall[p].op \in {"createBox", "createItem"} =>
             /\ rcall[p].created # <<>> => (rcall[p].checked /\ rcall[p].heldAdmin)
             /\ rcall[p].status \in {200, 201} => rcall[p].heldAdmin
             /\ (rcall[p].checked /\ ~rcall[p].heldAdmin) =>
                   /\ rcall[p].pc = "done"
                   /\ rcall[p].status = 403
                   /\ rcall[p].created = <<>>
    /\ Len(boxes) = 1 + Cardinality(Creators("createBox"))
    /\ Len(items) = Cardinality(Creators("createItem"))

C21_Witness ==
    \E p, q \in Procs :
        /\ rcall[p].op = "createBox" /\ rcall[p].pc = "done"
        /\ rcall[p].bodyValid
        /\ GetMembership(memberships, rcall[p].roomId, rcall[p].userId)
              = <<Membership("r1", rcall[p].userId, "viewer")>>
        /\ rcall[p].status = 403
        /\ rcall[q].op = "createItem" /\ rcall[q].pc = "done"
        /\ rcall[q].status = 200
        /\ rcall[q].heldAdmin
        /\ Len(boxes) = 1 /\ Len(items) = 1

\* C22: nothing serializes two getValidGoogleClient calls on one stale row:
\* both may read it and both make their own exchange; every write of a
\* refresh then overwrites the access token and the expiry of the row with
\* its own and leaves the refresh token, so the row left is that of the
\* refresh that wrote last.
C22_LastRefreshWriteWins ==
    [][\A p \in Procs :
          (/\ call[p].pc = "rf_store" /\ call'[p].pc # "rf_store"
           /\ googleTokens # <<>>) =>
              /\ googleTokens' =
                    <<[googleTokens[1] EXCEPT
                          !.accessToken = call[p].tokenResponse.token,
                          !.expiryDate = call[p].expiryDate]>>
              /\ googleTokens'[1].refreshToken = googleTokens[1].refreshToken
              /\ call'[p].wrote = googleTokens']_vars

C22_Witness ==
    \E p, q \in Procs :
        /\ p # q
        /\ call[p].op = "getValid" /\ call[q].op = "getValid"
        /\ call[p].pc = "done" /\ call[q].pc = "done"
        /\ call[p].error = NoError /\ call[q].error = NoError
        /\ call[p].storedTokens = call[q].storedTokens
        /\ ReadStale(p)
        /\ call[p].exchanges = 1 /\ call[q].exchanges = 1
        /\ call[p].writes = 1 /\ call[q].writes = 1
        /\ call[q].before = call[p].wrote
        /\ call[p].tokenResponse.token # call[q].tokenResponse.token
        /\ googleTokens = call[q].wrote
        /\ googleTokens[1].accessToken = call[q].tokenResponse.token
        /\ googleTokens[1].expiryDate = call[q].expiryDate
        /\ googleTokens[1].refreshToken = ReadRow(p).refreshToken

\* request p is a getValidGoogleClient call that went into its refresh branch
\* and is over
RefreshPathDone(p) ==
    call[p].op = "getValid" /\ call[p].refreshRead /\ call[p].pc = "done"

RefreshCauses ==
    {ErrNoRefreshToken, ErrReauthRequired, ErrRequestFailed, ErrEmptyToken,
     ErrPastExpiry, ErrStoreFailed}

\* C23: on the refresh branch of getValidGoogleClient, a re-read that finds no
\* row or no access token, or an expiry at or before the now taken at the
\* start of the call, ends the call with 'Failed to refresh expired Google
\* tokens' and no client; every error thrown by refreshUserGoogleTokens (the
\* re-authentication error included) reaches the caller as that same error,
\* wrapping the cause.
C23_RefreshPathFailures ==
    \A p \in Procs :
        RefreshPathDone(p) =>
            LET u == call[p].updatedTokens
            IN /\ call[p].error \in {NoError, ErrWrapped}
               /\ call[p].error = ErrWrapped => call[p].client = <<>>
               /\ call[p].wrote # <<>> =>
                     /\ (u = <<>> \/ u[1].accessToken = NULL) =>
                           (call[p].error = ErrWrapped /\ call[p].cause = ErrAfterRefresh)
                     /\ (/\ u # <<>>
                         /\ u[1].accessToken # NULL
                         /\ u[1].expiryDate # NoDate
                         /\ u[1].expiryDate <= call[p].now) =>
                           (call[p].error = ErrWrapped
                              /\ call[p].cause = ErrExpiredAfterRefresh)
               /\ call[p].wrote = <<>> =>
                     /\ call[p].error = ErrWrapped
                     /\ call[p].cause \in RefreshCauses
               /\ (call[p].providerError # NoProviderError
                     /\ GrantRevoked(call[p].providerError)) =>
                     (call[p].error = ErrWrapped /\ call[p].cause = ErrReauthRequired)

C23_Witness ==
    \E p \in Procs :
        /\ RefreshPathDone(p)
        /\ call[p].wrote # <<>>
        /\ call[p].updatedTokens # <<>>
        /\ call[p].updatedTokens[1].expiryDate # NoDate
        /\ call[p].updatedTokens[1].expiryDate <= call[p].now
        /\ call[p].error = ErrWrapped
        /\ call[p].cause = ErrExpiredAfterRefresh
        /\ call[p].client = <<>>

\* the entries of a scope string: the stretches between two single spaces
\* (or an end of the string) that hold a character other than white space,
\* in the order of their first characters
ScopeCuts(scope) == {0, Len(scope) + 1} \cup {i \in 1..Len(scope) : scope[i] = " "}
NextCut(scope, c) ==
    CHOOSE d \in ScopeCuts(scope) :
        d > c /\ \A e \in ScopeCuts(scope) : e > c => d <= e
KeptStarts(scope) ==
    {c \in ScopeCuts(scope) \ {Len(scope) + 1} :
        \E i \in (c + 1)..(NextCut(scope, c) - 1) : scope[i] \notin {" ", "TAB"}}
KeptStart(scope, k) ==
    CHOOSE c \in KeptStarts(scope) :
        Cardinality({d \in KeptStarts(scope) : d < c}) = k - 1
ExpectedScopes(scope) ==
    IF scope = <<"[object Array]">> THEN <<>>
    ELSE [k \in 1..Cardinality(KeptStarts(scope)) |->
             SubSeq(scope, KeptStart(scope, k) + 1,
                    NextCut(scope, KeptStart(scope, k)) - 1)]

\* C24: the scopes a save stores are the entries of the scope string between
\* single spaces, without the empty and the white-space-only ones, in their
\* order; when none is left, or the scope is absent or not a string, the
\* stored scopes are null, never an empty list.
C24_ScopesParsed ==
    \A p \in Procs :
        (call[p].op = "save" /\ call[p].pc = "done" /\ call[p].wrote # <<>>) =>
            LET stored == call[p].wrote[1].scopes
                expected == ExpectedScopes(call[p].tokens.scope)
            IN /\ stored # << <<>> >>
               /\ Len(expected) = 0 => stored = <<>>
               /\ Len(expected) > 0 =>
                     /\ Len(stored) = 1
                     /\ Len(stored[1]) = Len(expected)
                     /\ \A k \in 1..Len(expected) : stored[1][k] = expected[k]

C24_Witness ==
    \E p \in Procs :
        /\ call[p].op = "save" /\ call[p].pc = "done"
        /\ call[p].tokens.scope = <<"b", " ", " ", "a">>
        /\ call[p].wrote # <<>>
        /\ call[p].wrote[1].scopes = << << <<"b">>, <<"a">> >> >>
        /\ googleTokens = call[p].wrote

\* C25: every client getValidGoogleClient returns carries an expiry, and one
\* later than the now of the call, whatever other requests on the user's row
\* (a callback save, a refresh, a disconnect) interleave with it.
C25_ReturnedExpiryAfterStart ==
    \A p \in Procs :
        (call[p].op = "getValid" /\ call[p].pc = "done" /\ call[p].client # <<>>) =>
            /\ call[p].client[1].expiry_date # NoDate
            /\ call[p].client[1].expiry_date > call[p].now

\* C26: the write of a refresh never adds a row: when the row it read has
\* been deleted before it writes, the table stays empty and the refresh ends
\* with 'Failed to store refreshed tokens' and no write of its own.
C26_RefreshNeverCreates ==
    [][\A p \in Procs :
          (call[p].pc = "rf_store" /\ call'[p].pc # "rf_store") =>
              /\ Len(googleTokens') = Len(googleTokens)
              /\ googleTokens = <<>> =>
                    /\ googleTokens' = <<>>
                    /\ call'[p].pc = "done"
                    /\ call'[p].writes = 0
                    /\ call'[p].wrote = <<>>
                    /\ IF call[p].op = "getValid"
                       THEN call'[p].error = ErrWrapped /\ call'[p].cause = ErrStoreFailed
                       ELSE call'[p].error = ErrStoreFailed]_vars

C26_Witness ==
    \E p, q \in Procs :
        /\ call[p].op = "refresh" /\ call[p].pc = "done"
        /\ call[p].rStoredTokens # <<>>
        /\ call[p].answered
        /\ call[p].error = ErrStoreFailed
        /\ call[q].op = "disconnect" /\ call[q].pc = "done" /\ call[q].status = 200
        /\ call[q].before = call[p].rStoredTokens
        /\ googleTokens = <<>>

\* C27: when a save returns without error the table holds, at that moment, a
\* row with the access token of the response, also when a disconnect deleted
\* the row between the save's lookup and its write.
C27_SavedRowExists ==
    \A p \in Procs :
        (call[p].op = "save" /\ call[p].pc = "done" /\ call[p].error = NoError) =>
            /\ call[p].wrote # <<>>
            /\ call[p].wrote[1].accessToken = call[p].tokens.access_token

\* the access token a and the refresh token r come from one grant: they were
\* in the table together at the start, or in one callback response, or a was
\* minted by an exchange made with r
SameGrant(a, r) ==
    \/ \E row \in RaceRows : row.accessToken = a /\ row.refreshToken = r
    \/ \E p \in Procs :
          /\ call[p].op = "save"
          /\ call[p].tokens.access_token = a
          /\ call[p].tokens.refresh_token = r
    \/ \E p \in Procs :
          /\ call[p].answered
          /\ call[p].tokenResponse.token = a
          /\ call[p].rStoredTokens # <<>>
          /\ call[p].rStoredTokens[1].refreshToken = r

\* C28: the access token and the refresh token of the stored row always come
\* from one grant, also when a refresh interleaves with a callback save.
C28_TokensOfOneGrant ==
    googleTokens # <<>> =>
        SameGrant(googleTokens[1].accessToken, googleTokens[1].refreshToken)

\* a save that found a row, updated it and returned without error
SaveReplaced(p) ==
    /\ call[p].op = "save" /\ call[p].pc = "done" /\ call[p].error = NoError
    /\ call[p].existingTokens # <<>>
    /\ call[p].before # <<>>

\* C29: a save for a user who has a row replaces the four fields by the values
\* of the response; a field the response lacks (refresh token, expiry, scope)
\* becomes absent in the row and does not keep its prior value.
C29_SaveReplacesAllFields ==
    \A p \in Procs :
        SaveReplaced(p) =>
            /\ call[p].wrote # <<>>
            /\ call[p].wrote[1].accessToken = call[p].tokens.access_token
            /\ call[p].wrote[1].refreshToken = call[p].tokens.refresh_token
            /\ call[p].wrote[1].expiryDate = call[p].tokens.expiry_date
            /\ call[p].wrote[1].scopes = ParseScopes(call[p].tokens.scope)
            /\ call[p].tokens.refresh_token = NULL => call[p].wrote[1].refreshToken = NULL
            /\ call[p].tokens.expiry_date = NoDate => call[p].wrote[1].expiryDate = NoDate
            /\ call[p].tokens.scope = <<>> => call[p].wrote[1].scopes = NoScopes

\* a row with a refresh token, an expiry and scopes was updated by a response
\* that has none of the three, and the row has none of them now
C29_Witness ==
    \E p \in Procs :
        /\ SaveReplaced(p)
        /\ call[p].before[1].refreshToken # NULL
        /\ call[p].before[1].expiryDate # NoDate
        /\ call[p].before[1].scopes # NoScopes
        /\ call[p].tokens = Tokens("S1", NULL, NoDate, <<>>)
        /\ googleTokens = <<Row("S1", NULL, NoDate, NoScopes)>>

\* C30: no two stored users have usernames that are equal when compared
\* without regard to case, after any sequence or interleaving of createUser
\* calls.
C30_UsernamesUnique ==
    \A i, j \in 1..Len(users) :
        i # j => ToLowerCase(users[i].username) # ToLowerCase(users[j].username)

====
